---- MODULE Spec2Model ----
(***************************************************************************)
(* Ring-expansion heat map generation of bustowork:                        *)
(*   src/src/grid_generator.py           GridHeatMapGenerator              *)
(*   src/src/grid_generator_parallel.py  ParallelGridHeatMapGenerator,     *)
(*                                       _init_worker,                     *)
(*                                       _analyze_point_worker             *)
(*   src/src/analyzer.py                 TimeDistributionAnalyzer          *)
(* The multiprocessing.Pool the parallel generator runs on is modelled by  *)
(* CPython's semantics: worker processes start asynchronously and run the  *)
(* initializer, a worker whose initializer raises exits and is replaced,   *)
(* tasks are taken from one FIFO queue, map() returns (or raises) when     *)
(* every chunk has reported, imap_unordered() yields in arrival order and  *)
(* raises at the first failed item, and leaving the with-block terminates  *)
(* the pool.                                                               *)
(*                                                                         *)
(* Travel times are whole minutes; percentiles, and so scores, are in      *)
(* hundredths of a minute.  None is Python's None; an optional number is   *)
(* None or the one-element tuple <<n>>.                                    *)
(***************************************************************************)
EXTENDS Integers, Sequences, FiniteSets, TLC

None == << >>
Some(n) == << n >>

\* what a routing query can do
NoRoute == [kind |-> "none"]
Raises == [kind |-> "raise"]
Minutes(n) == [kind |-> "time", minutes |-> n]

\* ---------------------------------------------------------------- bounds
\* largest max_rings a run is started with
MaxRings == 2
\* largest ring_number generate_ring_points is called with on its own
MaxRingNumber == 3
\* largest grid_spacing_feet generate_ring_points is called with on its own
MaxSpacing == 3
\* largest num_workers
MaxWorkers == 2
\* additional minutes of the sampling window after its first minute
MaxWindowSpan == 1
\* the same for analyze_location called on its own
MaxAnalyzeSpan == 2
\* number of R5Router constructions that may fail in one run
MaxInitFailures == 1
\* the counters of worker processes and of constructions stop counting here
MaxCount == 4

\* ------------------------------------------------------- program constants
\* max_score_threshold: int = 60
DefaultThreshold == 60
\* grid_spacing_feet: int = 500
DefaultSpacing == 500

\* ------------------------------------------------------------- projection
\* EPSG:2272 (feet) -> EPSG:4326, an injective map of the plane; returns
\* (lat, lon) = (image of y, image of x)
grid_to_latlon(x, y) ==
    [lat |-> 2 * y + 1, lon |-> 3 * x - 2]

\* EPSG:4326 -> EPSG:2272, the inverse map; sets work_x, work_y
init_projections(work_lat, work_lon) ==
    [x |-> (work_lon + 2) \div 3, y |-> (work_lat - 1) \div 2]

abs(n) == IF n < 0 THEN -n ELSE n

\* the k-th pair (i, j) of the nested loops
\*   for i in range(-r, r + 1): for j in range(-r, r + 1)
LoopPair(r, k) ==
    [i |-> ((k - 1) \div (2 * r + 1)) - r, j |-> ((k - 1) % (2 * r + 1)) - r]

\* (mutant) keeps the corners only
OnPerimeterBoth(r, p) == abs(p.i) = r /\ abs(p.j) = r

\* (mutant) keeps the whole square
OnPerimeterOrInside(r, p) == abs(p.i) <= r /\ abs(p.j) <= r

\* "Only include points on the perimeter of the ring"
OnPerimeter(r, p) == abs(p.i) = r \/ abs(p.j) = r

\* GridHeatMapGenerator.generate_ring_points
SeqGenerateRingPoints(work_lat, work_lon, spacing, ring_number) ==
    IF ring_number = 0
    THEN << [lat |-> work_lat, lon |-> work_lon] >>
    ELSE LET w == init_projections(work_lat, work_lon)
             n == (2 * ring_number + 1) * (2 * ring_number + 1)
             pairs == [k \in 1..n |-> LoopPair(ring_number, k)]
             kept == SelectSeq(pairs, LAMBDA p : OnPerimeter(ring_number, p))
         IN  [k \in 1..Len(kept) |->
                 grid_to_latlon(w.x + kept[k].i * spacing,
                                w.y + kept[k].j * spacing)]

\* ParallelGridHeatMapGenerator.generate_ring_points
ParGenerateRingPoints(work_lat, work_lon, spacing, ring_number) ==
    IF ring_number = 0
    THEN << [lat |-> work_lat, lon |-> work_lon] >>
    ELSE LET w == init_projections(work_lat, work_lon)
             n == (2 * ring_number + 1) * (2 * ring_number + 1)
             pairs == [k \in 1..n |-> LoopPair(ring_number, k)]
             kept == SelectSeq(pairs, LAMBDA p : OnPerimeter(ring_number, p))
         IN  [k \in 1..Len(kept) |->
                 grid_to_latlon(w.x + kept[k].i * spacing,
                                w.y + kept[k].j * spacing)]

generate_ring_points(gen, work_lat, work_lon, spacing, ring_number) ==
    IF gen = "seq"
    THEN SeqGenerateRingPoints(work_lat, work_lon, spacing, ring_number)
    ELSE ParGenerateRingPoints(work_lat, work_lon, spacing, ring_number)

VARIABLES
    generator,       \* "seq": GridHeatMapGenerator, "par": ParallelGridHeatMapGenerator;
                     \* "street" when the object is a StreetNetwork
    self,            \* the generator's fields: work_lat, work_lon, grid_spacing_feet,
                     \* max_score_threshold, num_workers; a StreetNetwork's
                     \* fields: graph, _distance_cache
    config,          \* time_window_start, time_window_end (minutes of the day)
    max_rings,       \* generate_heatmap's argument
    verbose,         \* generate_heatmap's argument
    oracle,          \* what the routing engine answers for this run
    pc,              \* where generate_heatmap is
    ring,            \* the loop variable of generate_heatmap
    ring_points,     \* generate_ring_points(ring)
    ring_results,    \* the results of the current ring
    ring_scores,     \* the scores of the last completed ring
    results,         \* the artifact being built
    pool,            \* "none", "running" or "terminated"
    workers,         \* pool slot -> worker process
    inqueue,         \* the pool's task queue
    outcache,        \* the task results received for the call being waited on
    ctor_calls,      \* number of R5Router(...) calls made by worker processes
    spawned,         \* number of worker processes started
    init_failures_left, \* R5Router constructions that may still raise
    router_uses,     \* history: [pid, router] for every oracle query issued
    last_job,        \* history: the queries of the job that ran last and
                     \* the number of queries of the run
    call_args,       \* a stand-alone call of generate_ring_points
    call_result      \* and what it returned

vars == << generator, self, config, max_rings, verbose, oracle, pc, ring,
           ring_points, ring_results, ring_scores, results, pool, workers,
           inqueue, outcache, ctor_calls, spawned, init_failures_left,
           router_uses, last_job, call_args, call_result >>

\* ------------------------------------------------------------ the oracle
\* grid offset of a point relative to the work location
Offset(lat, lon) ==
    LET p == init_projections(lat, lon)
        w == init_projections(self.work_lat, self.work_lon)
    IN  [i |-> (p.x - w.x) \div self.grid_spacing_feet,
         j |-> (p.y - w.y) \div self.grid_spacing_feet]

RingOf(o) == IF abs(o.i) > abs(o.j) THEN abs(o.i) ELSE abs(o.j)

\* R5Router.calculate_route_at_time: Minutes(n), NoRoute when it returns None,
\* Raises when r5py raises.  The routing engine is a function of the query:
\* where it has a timetable entry (oracle.timed) it answers by the direction
\* and the departure time, elsewhere by the end of the trip that is not the
\* work location.
calculate_route_at_time(origin, dest, departure_time) ==
    LET work == [lat |-> self.work_lat, lon |-> self.work_lon]
        home == IF origin = work THEN dest ELSE origin
        o == Offset(home.lat, home.lon)
        key == [from_work |-> origin = work, departure_time |-> departure_time]
    IN  IF key \in DOMAIN oracle.timed THEN oracle.timed[key]
        ELSE IF o = oracle.special THEN oracle.special_answer
        ELSE oracle.base[RingOf(o)]

\* ------------------------------------------------------------- analyzer
RECURSIVE SumSeq(_)
SumSeq(s) == IF s = << >> THEN 0 ELSE Head(s) + SumSeq(Tail(s))

\* (mutant) the samples are not sorted before the interpolation
PercentileUnsorted(a, q) ==
    LET pos == q * (Len(a) - 1)
        lo == pos \div 100
        fr == pos % 100
        hi == IF fr = 0 THEN lo ELSE lo + 1
    IN  100 * a[lo + 1] + fr * (a[hi + 1] - a[lo + 1])

\* np.percentile(a, q), linear interpolation, in hundredths
Percentile(a, q) ==
    LET s == SortSeq(a, LAMBDA x, y : x < y)
        pos == q * (Len(s) - 1)
        lo == pos \div 100
        fr == pos % 100
        hi == IF fr = 0 THEN lo ELSE lo + 1
    IN  100 * s[lo + 1] + fr * (s[hi + 1] - s[lo + 1])

\* (mutant) the last minute of the window is left out
QueryScheduleHalfOpen ==
    LET n == IF config.time_window_end < config.time_window_start THEN 0
             ELSE config.time_window_end - config.time_window_start
    IN  [k \in 1..(2 * n) |->
            [departure_time |-> config.time_window_start + ((k - 1) \div 2),
             direction |-> IF k % 2 = 1 THEN "to_work" ELSE "from_work"]]

\* the queries of analyze_location in the order they are issued
QuerySchedule ==
    LET n == IF config.time_window_end < config.time_window_start THEN 0
             ELSE config.time_window_end - config.time_window_start + 1
    IN  [k \in 1..(2 * n) |->
            [departure_time |-> config.time_window_start + ((k - 1) \div 2),
             direction |-> IF k % 2 = 1 THEN "to_work" ELSE "from_work"]]

Answer(home, q) ==
    LET work == [lat |-> self.work_lat, lon |-> self.work_lon]
    IN  IF q.direction = "to_work"
        THEN calculate_route_at_time(home, work, q.departure_time)
        ELSE calculate_route_at_time(work, home, q.departure_time)

\* (mutant) a missing route home is not counted
CountUnreachableToWork(sched, answers) ==
    Cardinality({k \in 1..Len(sched) :
        answers[k].kind = "none" /\ sched[k].direction = "to_work"})

\* unreachable_count: one for every query that returned None
CountUnreachable(sched, answers) ==
    Cardinality({k \in 1..Len(sched) : answers[k].kind = "none"})

\* TimeDistributionAnalyzer.analyze_location: raised, the queries issued and,
\* when it returns, the analysis
analyze_location(home) ==
    LET sched == QuerySchedule
        answers == [k \in 1..Len(sched) |-> Answer(home, sched[k])]
        failing == {k \in 1..Len(sched) : answers[k].kind = "raise"}
        first == CHOOSE k \in failing : \A m \in failing : k <= m
        total_samples == Len(sched) \div 2
        to_idx == SelectSeq([k \in 1..Len(sched) |-> k],
                      LAMBDA k : sched[k].direction = "to_work" /\ answers[k].kind = "time")
        from_idx == SelectSeq([k \in 1..Len(sched) |-> k],
                      LAMBDA k : sched[k].direction = "from_work" /\ answers[k].kind = "time")
        to_work_times == [k \in 1..Len(to_idx) |-> answers[to_idx[k]].minutes]
        from_work_times == [k \in 1..Len(from_idx) |-> answers[from_idx[k]].minutes]
        unreachable_count == CountUnreachable(sched, answers)
        all_times == to_work_times \o from_work_times
    IN  IF failing # {}
        THEN [raised |-> TRUE, queries |-> SubSeq(sched, 1, first), analysis |-> None]
        ELSE [raised |-> FALSE, queries |-> sched, analysis |->
              IF all_times = << >>
              THEN [times |-> << >>, to_work_times |-> << >>,
                    from_work_times |-> << >>, percentiles |-> << >>,
                    statistics |-> << >>,
                    unreachable_count |-> unreachable_count,
                    total_samples |-> total_samples * 2,
                    reachable_ratio |-> [num |-> 0, den |-> 1]]
              ELSE [times |-> all_times, to_work_times |-> to_work_times,
                    from_work_times |-> from_work_times,
                    percentiles |-> [p10 |-> Percentile(all_times, 10),
                                     p25 |-> Percentile(all_times, 25),
                                     p50 |-> Percentile(all_times, 50),
                                     p75 |-> Percentile(all_times, 75),
                                     p80 |-> Percentile(all_times, 80),
                                     p90 |-> Percentile(all_times, 90),
                                     p95 |-> Percentile(all_times, 95)],
                    statistics |-> [mean |-> [num |-> SumSeq(all_times),
                                              den |-> Len(all_times)],
                                    median |-> Percentile(all_times, 50),
                                    min |-> Percentile(all_times, 0),
                                    max |-> Percentile(all_times, 100)],
                    unreachable_count |-> unreachable_count,
                    total_samples |-> total_samples * 2,
                    reachable_ratio |-> [num |-> Len(all_times),
                                         den |-> total_samples * 2]]]

\* (mutant) the score is the median
get_score_median(analysis_result) ==
    IF analysis_result.times = << >> THEN None
    ELSE Some(analysis_result.percentiles.p50)

\* TimeDistributionAnalyzer.get_score
get_score(analysis_result) ==
    IF analysis_result.times = << >> THEN None
    ELSE Some(analysis_result.percentiles.p80)

\* (mutant) the statistics dictionary is built for every point
PointResultWithStatistics(lat, lon, ring_number, analysis) ==
    [lat |-> lat, lon |-> lon,
     score |-> get_score(analysis),
     ring |-> ring_number,
     reachable_ratio |-> analysis.reachable_ratio,
     statistics |-> [min |-> None, median |-> None, max |-> None,
                     mean |-> None]]

\* the point_result dictionary built for one analysed point
PointResult(lat, lon, ring_number, analysis) ==
    [lat |-> lat, lon |-> lon,
     score |-> get_score(analysis),
     ring |-> ring_number,
     reachable_ratio |-> analysis.reachable_ratio,
     statistics |-> IF analysis.statistics # << >>
                    THEN [min |-> analysis.statistics.min,
                          median |-> analysis.statistics.median,
                          max |-> analysis.statistics.max,
                          mean |-> analysis.statistics.mean]
                    ELSE None]

\* ------------------------------------------------------ stopping rules
RECURSIVE MinSeq(_)
MinSeq(s) ==
    IF Len(s) = 1 THEN s[1]
    ELSE LET m == MinSeq(Tail(s)) IN IF s[1] < m THEN s[1] ELSE m

\* (mutant) only the result that arrived first is looked at
ScoresOfFirst(rs) ==
    LET scored == SelectSeq(SubSeq(rs, 1, 1), LAMBDA r : r.score # None)
    IN  [k \in 1..Len(scored) |-> scored[k].score[1]]

\* ring_scores = [r['score'] for r in ring_results if r['score'] is not None]
ScoresOf(rs) ==
    LET scored == SelectSeq(rs, LAMBDA r : r.score # None)
    IN  [k \in 1..Len(scored) |-> scored[k].score[1]]

ThresholdReason(r) == [why |-> "threshold", ring |-> r]
MaxRingsReason(n) == [why |-> "max_rings", max_rings |-> n]

\* (mutant) the threshold is recorded but the loop is not left
SeqCheckStopNoBreak(scores, r, maxr, threshold, reason) ==
    IF scores # << >> /\ MinSeq(scores) > 100 * threshold
    THEN [break |-> FALSE, last |-> r = maxr, stopped_reason |-> ThresholdReason(r)]
    ELSE IF r = maxr
         THEN [break |-> FALSE, last |-> TRUE, stopped_reason |-> MaxRingsReason(maxr)]
         ELSE [break |-> FALSE, last |-> FALSE, stopped_reason |-> reason]

\* (mutant) the center alone never stops the run
SeqCheckStopFromRing1(scores, r, maxr, threshold, reason) ==
    IF scores # << >> /\ MinSeq(scores) > 100 * threshold /\ r >= 1
    THEN [break |-> TRUE, last |-> FALSE, stopped_reason |-> ThresholdReason(r)]
    ELSE IF r = maxr
         THEN [break |-> FALSE, last |-> TRUE, stopped_reason |-> MaxRingsReason(maxr)]
         ELSE [break |-> FALSE, last |-> FALSE, stopped_reason |-> reason]

\* (mutant) max_rings is checked before the threshold
SeqCheckStopMaxFirst(scores, r, maxr, threshold, reason) ==
    IF r = maxr
    THEN [break |-> FALSE, last |-> TRUE, stopped_reason |-> MaxRingsReason(maxr)]
    ELSE IF scores # << >> /\ MinSeq(scores) > 100 * threshold
         THEN [break |-> TRUE, last |-> FALSE, stopped_reason |-> ThresholdReason(r)]
         ELSE [break |-> FALSE, last |-> FALSE, stopped_reason |-> reason]

\* (mutant) a minimum equal to the threshold stops the run
SeqCheckStopNonStrict(scores, r, maxr, threshold, reason) ==
    IF scores # << >> /\ MinSeq(scores) >= 100 * threshold
    THEN [break |-> TRUE, last |-> FALSE, stopped_reason |-> ThresholdReason(r)]
    ELSE IF r = maxr
         THEN [break |-> FALSE, last |-> TRUE, stopped_reason |-> MaxRingsReason(maxr)]
         ELSE [break |-> FALSE, last |-> FALSE, stopped_reason |-> reason]

\* GridHeatMapGenerator.generate_heatmap, "Check stopping condition" and
\* "Check if we hit max rings": whether the loop is left by break, whether
\* it ends, and stopped_reason afterwards
SeqCheckStop(scores, r, maxr, threshold, reason) ==
    IF scores # << >> /\ MinSeq(scores) > 100 * threshold
    THEN [break |-> TRUE, last |-> FALSE, stopped_reason |-> ThresholdReason(r)]
    ELSE IF r = maxr
         THEN [break |-> FALSE, last |-> TRUE, stopped_reason |-> MaxRingsReason(maxr)]
         ELSE [break |-> FALSE, last |-> FALSE, stopped_reason |-> reason]

\* (mutant) a ring without any score counts as exceeding the threshold
ParCheckStopEmptyStops(scores, r, maxr, threshold, reason) ==
    IF scores = << >> \/ MinSeq(scores) > 100 * threshold
    THEN [break |-> TRUE, last |-> FALSE, stopped_reason |-> ThresholdReason(r)]
    ELSE IF r = maxr
         THEN [break |-> FALSE, last |-> TRUE, stopped_reason |-> MaxRingsReason(maxr)]
         ELSE [break |-> FALSE, last |-> FALSE, stopped_reason |-> reason]

\* (mutant) the loop runs one ring too far: range(max_rings + 2)
ParCheckStopOneMore(scores, r, maxr, threshold, reason) ==
    IF scores # << >> /\ MinSeq(scores) > 100 * threshold
    THEN [break |-> TRUE, last |-> FALSE, stopped_reason |-> ThresholdReason(r)]
    ELSE IF r = maxr + 1
         THEN [break |-> FALSE, last |-> TRUE, stopped_reason |-> MaxRingsReason(maxr)]
         ELSE [break |-> FALSE, last |-> FALSE, stopped_reason |-> reason]

\* (mutant) a minimum equal to the threshold stops the run
ParCheckStopNonStrict(scores, r, maxr, threshold, reason) ==
    IF scores # << >> /\ MinSeq(scores) >= 100 * threshold
    THEN [break |-> TRUE, last |-> FALSE, stopped_reason |-> ThresholdReason(r)]
    ELSE IF r = maxr
         THEN [break |-> FALSE, last |-> TRUE, stopped_reason |-> MaxRingsReason(maxr)]
         ELSE [break |-> FALSE, last |-> FALSE, stopped_reason |-> reason]

\* (mutant) stopped_reason is not set when max_rings is reached
ParCheckStopNoReason(scores, r, maxr, threshold, reason) ==
    IF scores # << >> /\ MinSeq(scores) > 100 * threshold
    THEN [break |-> TRUE, last |-> FALSE, stopped_reason |-> ThresholdReason(r)]
    ELSE IF r = maxr
         THEN [break |-> FALSE, last |-> TRUE, stopped_reason |-> reason]
         ELSE [break |-> FALSE, last |-> FALSE, stopped_reason |-> reason]

\* ParallelGridHeatMapGenerator.generate_heatmap, the same two checks
ParCheckStop(scores, r, maxr, threshold, reason) ==
    IF scores # << >> /\ MinSeq(scores) > 100 * threshold
    THEN [break |-> TRUE, last |-> FALSE, stopped_reason |-> ThresholdReason(r)]
    ELSE IF r = maxr
         THEN [break |-> FALSE, last |-> TRUE, stopped_reason |-> MaxRingsReason(maxr)]
         ELSE [break |-> FALSE, last |-> FALSE, stopped_reason |-> reason]

\* ------------------------------------------------------------ the inputs
WorkLocations == {grid_to_latlon(x, y) : x \in {0, 1000}, y \in {-500, 2000}}

WindowStart == [hour |-> 6, minute |-> 0]

Specials == { [i |-> 0, j |-> 0], [i |-> -1, j |-> -1], [i |-> 1, j |-> 0],
              [i |-> 2, j |-> -1] }

Oracles ==
    [base : [0..MaxRings -> {NoRoute, Minutes(100)}],
     special : Specials,
     special_answer : {NoRoute, Minutes(60), Minutes(100), Raises},
     timed : {<< >>},
     constructible : {TRUE}]

\* The runs explored.  The sequential generator and a pool of one worker are
\* run on every oracle, window and max_rings.  A pool of several workers is
\* run to ring 1, on the one-minute window and the oracles with no route at
\* the work location and the special point in ring 1; a run in which a
\* router construction fails is explored for max_rings = 0.
Explored(gen, w, maxr, span, fails, orc) ==
    /\ gen = "seq" => w = 0 /\ fails = 0
    /\ gen = "par" => w # 0
    /\ fails > 0 => maxr = 0 /\ span = 0
    /\ (w > 1 /\ fails = 0) =>
          /\ maxr = 1
          /\ span = 0
          /\ orc.base[0] = NoRoute
          /\ orc.special = [i |-> 1, j |-> 0]

NoTask == << >>

\* self.num_workers = num_workers or cpu_count(); the sequential generator
\* has no workers
NumWorkers(gen, num_workers, cpus) ==
    IF gen = "par" /\ num_workers = 0 THEN cpus ELSE num_workers

\* a generator, its configuration and the arguments of generate_heatmap:
\* max_rings out of rings, grid_spacing_feet out of spacings, a window that
\* ends a number of minutes out of spans after it starts, num_workers out
\* of nworkers and a routing engine out of orcs
Start(orcs, rings, spacings, spans, nworkers) ==
    /\ generator \in {"seq", "par"}
    /\ verbose \in BOOLEAN
    /\ max_rings \in rings
    /\ oracle \in orcs
    /\ init_failures_left \in 0..MaxInitFailures
    /\ \E w \in nworkers, cpus \in 1..MaxWorkers, span \in spans,
          spacing \in spacings :
          /\ Explored(generator, NumWorkers(generator, w, cpus), max_rings,
                      span, init_failures_left, oracle)
          /\ self = [work_lat |-> grid_to_latlon(1000, 2000).lat,
                     work_lon |-> grid_to_latlon(1000, 2000).lon,
                     grid_spacing_feet |-> spacing,
                     max_score_threshold |-> DefaultThreshold,
                     num_workers |-> NumWorkers(generator, w, cpus)]
          /\ config = [time_window_start |->
                           60 * WindowStart.hour + WindowStart.minute,
                       time_window_end |->
                           60 * WindowStart.hour + WindowStart.minute + span]
    /\ pc = "start"
    /\ ring = 0
    /\ ring_points = << >>
    /\ ring_results = << >>
    /\ ring_scores = << >>
    /\ results = [points |-> << >>, rings_analyzed |-> 0, total_points |-> 0,
                  stopped_reason |-> None]
    /\ pool = "none"
    /\ workers = << >>
    /\ inqueue = << >>
    /\ outcache = << >>
    /\ ctor_calls = 0
    /\ spawned = 0
    /\ router_uses = {}
    /\ last_job = None
    /\ call_args = None
    /\ call_result = None

\* the runs on a configuration with max_rings >= 0, the default grid
\* spacing, a window of at least one minute and at least one worker
Init ==
    Start(Oracles, 0..MaxRings, {DefaultSpacing}, 0..MaxWindowSpan,
          0..MaxWorkers)

\* --------------------------------------------------- sequential generator
Work == [lat |-> self.work_lat, lon |-> self.work_lon]

\* the parent process and the router the caller built for the analyzer
Parent == [pid |-> 0, router |-> [id |-> 0, built_by |-> 0]]

\* the queries one job issued: how many, from which processes, on which
\* routers, and whether the job raised; total is the number of queries
\* issued in the run so far
QueriesOf(pid, router, a) ==
    [total |-> (IF last_job = None THEN 0 ELSE last_job.total) + Len(a.queries),
     n |-> Len(a.queries),
     pids |-> {pid : k \in 1..Len(a.queries)},
     routers |-> {router : k \in 1..Len(a.queries)},
     raised |-> a.raised]

\* (mutant) the worker processes are left running
TerminatedNobody(ws) == ws

\* "with ctx.Pool(...) as pool" is left: Pool.terminate()
Terminated(ws) == [w \in DOMAIN ws |-> [ws[w] EXCEPT !.state = "terminated"]]

\* generate_heatmap up to the ring loop
BeginHeatmap ==
    /\ pc = "start"
    /\ ring' = 0
    /\ IF generator = "par" /\ self.num_workers < 1
       THEN \* Pool.__init__: ValueError("Number of processes must be at
            \* least 1")
            /\ pc' = "raised"
            /\ UNCHANGED << pool, workers, spawned >>
       ELSE IF generator = "par"
       THEN LET started == [w \in 1..self.num_workers |->
                              [state |-> "spawned", pid |-> w,
                               WORKER_CONFIG |-> None, WORKER_ROUTER |-> None,
                               task |-> NoTask, out |-> << >>]]
            IN  /\ spawned' = self.num_workers
                /\ IF max_rings < 0
                   THEN \* range(max_rings + 1) is empty: the with-block is
                        \* left at once and generate_heatmap returns
                        /\ pool' = "terminated"
                        /\ workers' = Terminated(started)
                        /\ pc' = "returned"
                   ELSE /\ pool' = "running"
                        /\ workers' = started
                        /\ pc' = "loop"
       ELSE /\ pc' = IF max_rings < 0 THEN "returned" ELSE "loop"
            /\ UNCHANGED << pool, workers, spawned >>
    /\ UNCHANGED << generator, self, config, max_rings, verbose, oracle,
                    ring_points, ring_results, ring_scores, results, inqueue,
                    outcache, ctor_calls, init_failures_left, router_uses,
                    last_job, call_args, call_result >>

\* top of one iteration of "for ring in range(max_rings + 1)"
SeqStartRing ==
    /\ generator = "seq"
    /\ pc = "loop"
    /\ ring_points' = SeqGenerateRingPoints(self.work_lat, self.work_lon,
                                            self.grid_spacing_feet, ring)
    /\ ring_results' = << >>
    /\ ring_scores' = << >>
    /\ pc' = "analyze"
    /\ UNCHANGED << generator, self, config, max_rings, verbose, oracle, ring,
                    results, pool, workers, inqueue, outcache, ctor_calls,
                    spawned, init_failures_left, router_uses, last_job,
                    call_args, call_result >>

\* one iteration of "for lat, lon in iterator"
SeqAnalyzePoint ==
    /\ generator = "seq"
    /\ pc = "analyze"
    /\ Len(ring_results) < Len(ring_points)
    /\ LET pt == ring_points[Len(ring_results) + 1]
           a == analyze_location(pt)
           point_result == PointResult(pt.lat, pt.lon, ring, a.analysis)
       IN  /\ last_job' = QueriesOf(Parent.pid, Parent.router, a)
           /\ router_uses' = IF a.queries = << >> THEN router_uses
                             ELSE router_uses \cup
                                  {[pid |-> Parent.pid, router |-> Parent.router]}
           /\ IF a.raised
              THEN /\ pc' = "raised"
                   /\ UNCHANGED << ring_results, ring_scores, results >>
              ELSE /\ ring_results' = Append(ring_results, point_result)
                   /\ results' = [results EXCEPT
                                     !.points = Append(@, point_result)]
                   /\ ring_scores' =
                          IF point_result.score # None
                          THEN Append(ring_scores, point_result.score[1])
                          ELSE ring_scores
                   /\ pc' = pc
    /\ UNCHANGED << generator, self, config, max_rings, verbose, oracle, ring,
                    ring_points, pool, workers, inqueue, outcache, ctor_calls,
                    spawned, init_failures_left, call_args, call_result >>

\* the rest of the iteration, after the point loop
SeqRingDone ==
    /\ generator = "seq"
    /\ pc = "analyze"
    /\ Len(ring_results) = Len(ring_points)
    /\ LET d == SeqCheckStop(ring_scores, ring, max_rings,
                             self.max_score_threshold, results.stopped_reason)
       IN  /\ results' = [results EXCEPT
                             !.rings_analyzed = ring + 1,
                             !.total_points = Len(results.points),
                             !.stopped_reason = d.stopped_reason]
           /\ IF d.break \/ d.last
              THEN pc' = "returned" /\ ring' = ring
              ELSE pc' = "loop" /\ ring' = ring + 1
    /\ UNCHANGED << generator, self, config, max_rings, verbose, oracle,
                    ring_points, ring_results, ring_scores, pool, workers,
                    inqueue, outcache, ctor_calls, spawned, init_failures_left,
                    router_uses, last_job, call_args, call_result >>

\* ----------------------------------------------------- parallel generator
RECURSIVE Flatten(_)
Flatten(ss) == IF ss = << >> THEN << >> ELSE Head(ss) \o Flatten(Tail(ss))

Min2(a, b) == IF a < b THEN a ELSE b

\* Pool._map_async: chunksize, extra = divmod(len(iterable), len(pool) * 4)
MapChunkSize(n, w) ==
    IF n % (w * 4) # 0 THEN (n \div (w * 4)) + 1 ELSE n \div (w * 4)

\* Pool._get_tasks: the tasks of one map or imap_unordered call, numbered
\* from 0
Tasks(point_data, chunksize) ==
    LET n == Len(point_data)
        m == (n + chunksize - 1) \div chunksize
    IN  [c \in 1..m |->
            [i |-> c - 1,
             items |-> SubSeq(point_data, (c - 1) * chunksize + 1,
                              Min2(c * chunksize, n))]]

\* point_data = [(lat, lon, ring) for lat, lon in ring_points]
PointData(points, r) ==
    [k \in 1..Len(points) |-> [lat |-> points[k].lat, lon |-> points[k].lon,
                               ring |-> r]]

\* the tasks pool.imap_unordered (verbose) or pool.map puts on the queue
RingTasks(points, r) ==
    IF verbose
    THEN Tasks(PointData(points, r), 1)
    ELSE Tasks(PointData(points, r),
               MapChunkSize(Len(points), self.num_workers))

\* (mutant) every worker is handed one router built outside the workers
init_worker_shared(w) ==
    [workers[w] EXCEPT
        !.WORKER_CONFIG = Some("worker_config"),
        !.WORKER_ROUTER = Some([id |-> 0, built_by |-> 0]),
        !.state = "ready"]

\* _init_worker, when R5Router(...) returns: the process's globals afterwards
init_worker(w) ==
    [workers[w] EXCEPT
        !.WORKER_CONFIG = Some("worker_config"),
        !.WORKER_ROUTER = Some([id |-> ctor_calls + 1, built_by |-> workers[w].pid]),
        !.state = "ready"]

\* (mutant) the router is built again for every point
WorkerRouterPerJob(w) ==
    [router |-> [id |-> ctor_calls + 1, built_by |-> workers[w].pid], built |-> 1]

\* _analyze_point_worker: "router = _WORKER_ROUTER"; built counts the
\* routers the call constructs
WorkerRouter(w) == [router |-> workers[w].WORKER_ROUTER[1], built |-> 0]

\* the result handler hands a task's result to the waiting call:
\* IMapUnorderedIterator._set appends it to the items in arrival order,
\* MapResult._set stores it at the task's place
Deliver(cache, entry) ==
    IF verbose THEN Append(cache, entry)
    ELSE LET before == SelectSeq(cache, LAMBDA c : c.i < entry.i)
             after == SelectSeq(cache, LAMBDA c : c.i > entry.i)
         IN  before \o << entry >> \o after

\* n + 1 for the counters kept as history
Count(n) == IF n < MaxCount THEN n + 1 ELSE n

\* the worker process starts and runs the initializer: R5Router(...) returns,
\* or it raises (each time when the transport network cannot be built, as
\* with a wrong gtfs_path) and the process exits
InitWorker(w) ==
    /\ pool = "running"
    /\ workers[w].state = "spawned"
    /\ ctor_calls' = Count(ctor_calls)
    /\ \/ /\ oracle.constructible
          /\ workers' = [workers EXCEPT ![w] = init_worker(w)]
          /\ UNCHANGED init_failures_left
       \/ /\ init_failures_left > 0 \/ ~oracle.constructible
          /\ init_failures_left' = IF init_failures_left > 0
                                   THEN init_failures_left - 1
                                   ELSE init_failures_left
          /\ workers' = [workers EXCEPT
                            ![w].WORKER_CONFIG = Some("worker_config"),
                            ![w].state = "dead"]
    /\ UNCHANGED << generator, self, config, max_rings, verbose, oracle, pc,
                    ring, ring_points, ring_results, ring_scores, results,
                    pool, inqueue, outcache, spawned, router_uses, last_job,
                    call_args, call_result >>

\* Pool._maintain_pool: a worker process that exited is replaced
Respawn(w) ==
    /\ pool = "running"
    /\ workers[w].state = "dead"
    /\ spawned' = Count(spawned)
    /\ workers' = [workers EXCEPT ![w] =
                      [state |-> "spawned", pid |-> Count(spawned),
                       WORKER_CONFIG |-> None, WORKER_ROUTER |-> None,
                       task |-> NoTask, out |-> << >>]]
    /\ UNCHANGED << generator, self, config, max_rings, verbose, oracle, pc,
                    ring, ring_points, ring_results, ring_scores, results,
                    pool, inqueue, outcache, ctor_calls, init_failures_left,
                    router_uses, last_job, call_args, call_result >>

\* multiprocessing.pool.worker: task = get()
TakeTask(w) ==
    /\ pool = "running"
    /\ workers[w].state = "ready"
    /\ inqueue # << >>
    /\ workers' = [workers EXCEPT ![w].state = "busy",
                                  ![w].task = Head(inqueue),
                                  ![w].out = << >>]
    /\ inqueue' = Tail(inqueue)
    /\ UNCHANGED << generator, self, config, max_rings, verbose, oracle, pc,
                    ring, ring_points, ring_results, ring_scores, results,
                    pool, outcache, ctor_calls, spawned, init_failures_left,
                    router_uses, last_job, call_args, call_result >>

\* _analyze_point_worker on the next point of the worker's task; the task's
\* result is put on the result queue when its last point is done or when a
\* point raises
RunJob(w) ==
    /\ pool = "running"
    /\ workers[w].state = "busy"
    /\ LET task == workers[w].task
           item == task.items[Len(workers[w].out) + 1]
           r == WorkerRouter(w)
           a == analyze_location([lat |-> item.lat, lon |-> item.lon])
           out == Append(workers[w].out,
                         PointResult(item.lat, item.lon, item.ring, a.analysis))
       IN  /\ ctor_calls' = ctor_calls + r.built
           /\ last_job' = QueriesOf(workers[w].pid, r.router, a)
           /\ router_uses' = IF a.queries = << >> THEN router_uses
                             ELSE router_uses \cup
                                  {[pid |-> workers[w].pid, router |-> r.router]}
           /\ IF a.raised
              THEN /\ outcache' = Deliver(outcache,
                                    [i |-> task.i, ok |-> FALSE, value |-> << >>])
                   /\ workers' = [workers EXCEPT ![w].state = "ready",
                                                 ![w].task = NoTask,
                                                 ![w].out = << >>]
              ELSE IF Len(out) = Len(task.items)
                   THEN /\ outcache' = Deliver(outcache,
                                    [i |-> task.i, ok |-> TRUE, value |-> out])
                        /\ workers' = [workers EXCEPT ![w].state = "ready",
                                                      ![w].task = NoTask,
                                                      ![w].out = << >>]
                   ELSE /\ workers' = [workers EXCEPT ![w].out = out]
                        /\ UNCHANGED outcache
    /\ UNCHANGED << generator, self, config, max_rings, verbose, oracle, pc,
                    ring, ring_points, ring_results, ring_scores, results,
                    pool, inqueue, spawned, init_failures_left, call_args,
                    call_result >>

\* top of one iteration of the ring loop: the ring's points are submitted
ParSubmitRing ==
    /\ generator = "par"
    /\ pc = "loop"
    /\ ring_points' = ParGenerateRingPoints(self.work_lat, self.work_lon,
                                            self.grid_spacing_feet, ring)
    /\ inqueue' = inqueue \o RingTasks(ring_points', ring)
    /\ outcache' = << >>
    /\ pc' = "wait"
    /\ UNCHANGED << generator, self, config, max_rings, verbose, oracle, ring,
                    ring_results, ring_scores, results, pool, workers,
                    ctor_calls, spawned, init_failures_left, router_uses,
                    last_job, call_args, call_result >>

\* (mutant) the call returns with the first result
CollectedAny(cache, ntasks) == Len(cache) >= 1

\* (mutant) the call returns without the last straggler
CollectedButOne(cache, ntasks) == Len(cache) >= ntasks - 1

\* MapResult._set / IMapUnorderedIterator exhausted: every task of the call
\* has reported
Collected(cache, ntasks) == Len(cache) = ntasks

Failed(cache) == \E k \in 1..Len(cache) : ~cache[k].ok

\* the list pool.map returns: the chunks' results in task order
RECURSIVE InTaskOrder(_, _, _)
InTaskOrder(cache, i, ntasks) ==
    IF i >= ntasks THEN << >>
    ELSE Flatten([k \in 1..Len(SelectSeq(cache, LAMBDA c : c.i = i)) |->
                     SelectSeq(cache, LAMBDA c : c.i = i)[k].value])
         \o InTaskOrder(cache, i + 1, ntasks)

\* list(tqdm(pool.imap_unordered(...))): the results in arrival order
InArrivalOrder(cache) == Flatten([k \in 1..Len(cache) |-> cache[k].value])

\* (mutant) the ring's results are put in front of the list
ExtendFront(points, rs) == rs \o points

\* (mutant) points = ring_results
ExtendReplace(points, rs) == rs

\* results['points'].extend(ring_results)
Extend(points, rs) == points \o rs

\* pool.map / list(imap_unordered) returned; "Add results", "Check stopping
\* condition" and "Check if we hit max rings"; on leaving the loop the
\* with-block terminates the pool and generate_heatmap returns
ParRingDone ==
    /\ generator = "par"
    /\ pc = "wait"
    /\ Collected(outcache, Len(RingTasks(ring_points, ring)))
    /\ ~Failed(outcache)
    /\ ring_results' = IF verbose THEN InArrivalOrder(outcache)
                       ELSE InTaskOrder(outcache, 0,
                                        Len(RingTasks(ring_points, ring)))
    /\ ring_scores' = ScoresOf(ring_results')
    /\ LET d == ParCheckStop(ring_scores', ring, max_rings,
                             self.max_score_threshold, results.stopped_reason)
       IN  /\ results' = [results EXCEPT
                             !.points = Extend(@, ring_results'),
                             !.rings_analyzed = ring + 1,
                             !.total_points =
                                 Len(Extend(results.points, ring_results')),
                             !.stopped_reason = d.stopped_reason]
           /\ IF d.break \/ d.last
              THEN /\ pc' = "returned"
                   /\ ring' = ring
                   /\ pool' = "terminated"
                   /\ workers' = Terminated(workers)
                   /\ inqueue' = << >>
              ELSE /\ pc' = "loop"
                   /\ ring' = ring + 1
                   /\ UNCHANGED << pool, workers, inqueue >>
    /\ UNCHANGED << generator, self, config, max_rings, verbose, oracle,
                    ring_points, outcache, ctor_calls, spawned,
                    init_failures_left, router_uses, last_job, call_args,
                    call_result >>

\* the exception of a failed job is raised in the parent: by pool.map once
\* every chunk has reported, by the imap_unordered iterator when the failed
\* item arrives; it leaves the with-block and generate_heatmap
ParRaise ==
    /\ generator = "par"
    /\ pc = "wait"
    /\ Failed(outcache)
    /\ verbose \/ Collected(outcache, Len(RingTasks(ring_points, ring)))
    /\ pc' = "raised"
    /\ pool' = "terminated"
    /\ workers' = Terminated(workers)
    /\ inqueue' = << >>
    /\ UNCHANGED << generator, self, config, max_rings, verbose, oracle, ring,
                    ring_points, ring_results, ring_scores, results, outcache,
                    ctor_calls, spawned, init_failures_left, router_uses,
                    last_job, call_args, call_result >>

Next ==
    \/ BeginHeatmap
    \/ SeqStartRing
    \/ SeqAnalyzePoint
    \/ SeqRingDone
    \/ ParSubmitRing
    \/ ParRingDone
    \/ ParRaise
    \/ \E w \in DOMAIN workers : InitWorker(w)
    \/ \E w \in DOMAIN workers : Respawn(w)
    \/ \E w \in DOMAIN workers : TakeTask(w)
    \/ \E w \in DOMAIN workers : RunJob(w)

Spec == Init /\ [][Next]_vars

\* ------------------------------------------------- runs to their end
\* routing engines that answer alike on every ring but for one point, and
\* one whose transport network cannot be built
LiveOracles ==
    {o \in Oracles :
        /\ \A r \in DOMAIN o.base : o.base[r] = o.base[0]
        /\ o.special \in {[i |-> 0, j |-> 0], [i |-> 1, j |-> 0]}
        /\ o.special_answer # Minutes(100)}
    \cup
    [base : {[r \in 0..MaxRings |-> NoRoute]},
     special : {[i |-> 0, j |-> 0]},
     special_answer : {NoRoute},
     timed : {<< >>},
     constructible : {FALSE}]

\* the same runs and those on max_rings = -1, a negative grid spacing, a
\* window that ends before it starts, or num_workers = -1
InitLive ==
    Start(LiveOracles, (-1)..MaxRings, {DefaultSpacing, -DefaultSpacing},
          (-1)..MaxWindowSpan, (-1)..MaxWorkers)

\* SeqAnalyzePoint can be taken
CanAnalyzePoint ==
    generator = "seq" /\ pc = "analyze" /\ Len(ring_results) < Len(ring_points)

\* RunJob can be taken by some worker
CanRunJob ==
    pool = "running" /\ \E w \in DOMAIN workers : workers[w].state = "busy"

\* The parent process goes on when it can, a worker process that started
\* runs its initializer, an idle worker takes a task from the queue, a busy
\* worker goes on with its task, and the pool's worker handler replaces a
\* worker that exited.  For the two steps that evaluate a point, weak
\* fairness is written out with the condition under which the step can be
\* taken.
Fairness ==
    /\ WF_vars(BeginHeatmap)
    /\ WF_vars(SeqStartRing)
    /\ WF_vars(SeqRingDone)
    /\ WF_vars(ParSubmitRing)
    /\ WF_vars(ParRingDone)
    /\ WF_vars(ParRaise)
    /\ WF_vars(\E w \in DOMAIN workers : InitWorker(w))
    /\ WF_vars(\E w \in DOMAIN workers : Respawn(w))
    /\ WF_vars(\E w \in DOMAIN workers : TakeTask(w))
    /\ ([]<>(~CanAnalyzePoint) \/ []<><<SeqAnalyzePoint>>_vars)
    /\ ([]<>(~CanRunJob) \/ []<><<\E w \in DOMAIN workers : RunJob(w)>>_vars)

SpecLive == InitLive /\ [][Next]_vars /\ Fairness

\* ------------------------------ generate_ring_points called on its own
InitRing ==
    /\ call_args \in [generator : {"seq", "par"},
                      work : WorkLocations,
                      spacing : 1..MaxSpacing,
                      ring_number : 0..MaxRingNumber]
    /\ call_result = None
    /\ generator = call_args.generator
    /\ self = [work_lat |-> call_args.work.lat, work_lon |-> call_args.work.lon,
               grid_spacing_feet |-> call_args.spacing,
               max_score_threshold |-> DefaultThreshold, num_workers |-> 0]
    /\ config = None
    /\ max_rings = 0
    /\ verbose = FALSE
    /\ oracle = None
    /\ pc = "call"
    /\ ring = 0
    /\ ring_points = << >>
    /\ ring_results = << >>
    /\ ring_scores = << >>
    /\ results = None
    /\ pool = "none"
    /\ workers = << >>
    /\ inqueue = << >>
    /\ outcache = << >>
    /\ ctor_calls = 0
    /\ spawned = 0
    /\ init_failures_left = 0
    /\ router_uses = {}
    /\ last_job = None

CallGenerateRingPoints ==
    /\ pc = "call"
    /\ call_result' = generate_ring_points(generator, self.work_lat, self.work_lon,
                                           self.grid_spacing_feet,
                                           call_args.ring_number)
    /\ pc' = "called"
    /\ UNCHANGED << generator, self, config, max_rings, verbose, oracle, ring,
                    ring_points, ring_results, ring_scores, results, pool,
                    workers, inqueue, outcache, ctor_calls, spawned,
                    init_failures_left, router_uses, last_job, call_args >>

NextRing == CallGenerateRingPoints

SpecRing == InitRing /\ [][NextRing]_vars

\* -------------------------------- analyze_location called on its own
\* what the routing engine answers to one query
AnalyzeAnswers == {NoRoute, Raises, Minutes(10), Minutes(25), Minutes(70)}

\* the queries of a window that starts at WindowStart and ends at window_end
WindowQueries(window_end) ==
    [from_work : BOOLEAN,
     departure_time : (60 * WindowStart.hour + WindowStart.minute)..window_end]

\* a TimeDistributionAnalyzer on a window of 0 to MaxAnalyzeSpan + 1 minutes
\* (time_window_end before time_window_start gives no minute), a routing
\* engine with an answer for each query of the window, and a home location:
\* the work location itself or its neighbour on ring 1
InitAnalyze ==
    /\ generator = "seq"
    /\ self = [work_lat |-> grid_to_latlon(1000, 2000).lat,
               work_lon |-> grid_to_latlon(1000, 2000).lon,
               grid_spacing_feet |-> DefaultSpacing,
               max_score_threshold |-> DefaultThreshold, num_workers |-> 0]
    /\ \E window_end \in (60 * WindowStart.hour + WindowStart.minute - 2)..
                          (60 * WindowStart.hour + WindowStart.minute
                              + MaxAnalyzeSpan) :
          /\ config = [time_window_start |->
                           60 * WindowStart.hour + WindowStart.minute,
                       time_window_end |-> window_end]
          /\ \E timed \in [WindowQueries(window_end) -> AnalyzeAnswers] :
                oracle = [base |-> [r \in 0..MaxRings |-> NoRoute],
                          special |-> [i |-> 2, j |-> -1],
                          special_answer |-> NoRoute,
                          timed |-> timed,
                          constructible |-> TRUE]
    /\ call_args \in [home : {Work, grid_to_latlon(1000 + DefaultSpacing, 2000)}]
    /\ call_result = None
    /\ max_rings = 0
    /\ verbose \in BOOLEAN
    /\ pc = "call"
    /\ ring = 0
    /\ ring_points = << >>
    /\ ring_results = << >>
    /\ ring_scores = << >>
    /\ results = None
    /\ pool = "none"
    /\ workers = << >>
    /\ inqueue = << >>
    /\ outcache = << >>
    /\ ctor_calls = 0
    /\ spawned = 0
    /\ init_failures_left = 0
    /\ router_uses = {}
    /\ last_job = None

\* analysis = analyzer.analyze_location(lat, lon); score =
\* analyzer.get_score(analysis)
CallAnalyzeLocation ==
    /\ pc = "call"
    /\ LET a == analyze_location(call_args.home)
       IN  call_result' =
               [raised |-> a.raised, queries |-> a.queries,
                analysis |-> a.analysis,
                score |-> IF a.raised THEN None ELSE get_score(a.analysis)]
    /\ pc' = "called"
    /\ UNCHANGED << generator, self, config, max_rings, verbose, oracle, ring,
                    ring_points, ring_results, ring_scores, results, pool,
                    workers, inqueue, outcache, ctor_calls, spawned,
                    init_failures_left, router_uses, last_job, call_args >>

NextAnalyze == CallAnalyzeLocation

SpecAnalyze == InitAnalyze /\ [][NextAnalyze]_vars

\* --------------------------------------------------------- StreetNetwork
\* Coordinates are in millionths of a degree, distances in millionths of a
\* mile, times in millionths of a minute, path lengths in meters.

\* round(x, 5): the nearest multiple of 10 millionths (no input is a tie)
Round5(x) == 10 * ((x + 5) \div 10)

\* np.sqrt, rounded down
ISqrt(n) == CHOOSE r \in 0..n : r * r <= n /\ n < (r + 1) * (r + 1)

\* StreetNetwork._haversine_distance: c * 3959 miles; for the short
\* distances near the equator used here c is the planar distance in radians,
\* and one millionth of a degree is 69.1 millionths of a mile
haversine_distance(lat1, lon1, lat2, lon2) ==
    (691 * ISqrt((lat2 - lat1) * (lat2 - lat1) + (lon2 - lon1) * (lon2 - lon1)))
        \div 10

\* (distance_miles / miles_per_hour) * 60
TimeMinutes(distance_miles, miles_per_hour) ==
    (distance_miles * 60) \div miles_per_hour

\* path_length / 1609.34, to the precision that 32-bit integers allow
MetersToMiles(path_length) == (path_length * 5000000) \div 8047

\* the walk networks load_network can produce: nodes with their position and
\* the length of the shortest path between two nodes, None where no path
\* exists
StreetNodes ==
    [A |-> [lat |-> 0, lon |-> 0], B |-> [lat |-> 12, lon |-> 0],
     C |-> [lat |-> 0, lon |-> 40], D |-> [lat |-> 0, lon |-> 75]]

StreetGraphs ==
    { [nodes |-> StreetNodes,
       length |-> [A |-> [C |-> Some(100), D |-> Some(210)],
                   B |-> [C |-> Some(130), D |-> None]]],
      [nodes |-> StreetNodes,
       length |-> [A |-> [C |-> None, D |-> Some(180)],
                   B |-> [C |-> Some(90), D |-> Some(260)]]] }

\* ox.distance.nearest_nodes(graph, lon, lat)
nearest_nodes(graph, lon, lat) ==
    LET d2(n) == (graph.nodes[n].lat - lat) * (graph.nodes[n].lat - lat)
                 + (graph.nodes[n].lon - lon) * (graph.nodes[n].lon - lon)
    IN  CHOOSE n \in DOMAIN graph.nodes :
            \A m \in DOMAIN graph.nodes : d2(n) <= d2(m)

\* nx.shortest_path_length(graph, orig, dest, weight='length'); None when it
\* raises NetworkXNoPath
shortest_path_length(graph, orig_node, dest_node) ==
    graph.length[orig_node][dest_node]

\* StreetNetwork.get_walking_distance: the returned tuple and the cache
\* it leaves
get_walking_distance(network, lat1, lon1, lat2, lon2, miles_per_hour) ==
    LET cache_key == << Round5(lat1), Round5(lon1), Round5(lat2), Round5(lon2) >>
        cache == network._distance_cache
        Stored(result) ==
            [result |-> result,
             cache |-> [k \in DOMAIN cache \cup {cache_key} |->
                          IF k = cache_key THEN result ELSE cache[k]]]
    IN  IF cache_key \in DOMAIN cache
        THEN [result |-> cache[cache_key], cache |-> cache]
        ELSE IF network.graph = None
        THEN LET distance_miles ==
                     (haversine_distance(lat1, lon1, lat2, lon2) * 13) \div 10
                 time_minutes == TimeMinutes(distance_miles, miles_per_hour)
             IN  Stored(<< Some(distance_miles), Some(time_minutes) >>)
        ELSE LET orig_node == nearest_nodes(network.graph[1], lon1, lat1)
                 dest_node == nearest_nodes(network.graph[1], lon2, lat2)
                 path_length == shortest_path_length(network.graph[1],
                                                     orig_node, dest_node)
             IN  IF path_length = None
                 THEN [result |-> << None, None >>, cache |-> cache]
                 ELSE LET distance_miles == MetersToMiles(path_length[1])
                          time_minutes ==
                              TimeMinutes(distance_miles, miles_per_hour)
                      IN  Stored(<< Some(distance_miles), Some(time_minutes) >>)

\* the calls made
WalkCalls ==
    [lat1 : {0, 3, 12}, lon1 : {0}, lat2 : {0}, lon2 : {40, 75},
     miles_per_hour : {3, 4}]

\* StreetNetwork.__init__
InitStreet ==
    /\ generator = "street"
    /\ self = [graph |-> None, _distance_cache |-> << >>]
    /\ config = None
    /\ oracle = None
    /\ call_args = None
    /\ call_result = None
    /\ max_rings = 0
    /\ verbose = FALSE
    /\ pc = "street"
    /\ ring = 0
    /\ ring_points = << >>
    /\ ring_results = << >>
    /\ ring_scores = << >>
    /\ results = None
    /\ pool = "none"
    /\ workers = << >>
    /\ inqueue = << >>
    /\ outcache = << >>
    /\ ctor_calls = 0
    /\ spawned = 0
    /\ init_failures_left = 0
    /\ router_uses = {}
    /\ last_job = None

\* StreetNetwork.load_network: the graph of the place, or None when the
\* download raises
LoadNetwork ==
    /\ pc = "street"
    /\ \E g \in {Some(G) : G \in StreetGraphs} \cup {None} :
          self' = [self EXCEPT !.graph = g]
    /\ UNCHANGED << generator, config, max_rings, verbose, oracle, pc, ring,
                    ring_points, ring_results, ring_scores, results, pool,
                    workers, inqueue, outcache, ctor_calls, spawned,
                    init_failures_left, router_uses, last_job, call_args,
                    call_result >>

\* one call of network.get_walking_distance(...)
GetWalkingDistance ==
    /\ pc = "street"
    /\ \E a \in WalkCalls :
          LET r == get_walking_distance(self, a.lat1, a.lon1, a.lat2, a.lon2,
                                        a.miles_per_hour)
          IN  /\ call_args' = a
              /\ call_result' = r.result
              /\ self' = [self EXCEPT !._distance_cache = r.cache]
    /\ UNCHANGED << generator, config, max_rings, verbose, oracle, pc, ring,
                    ring_points, ring_results, ring_scores, results, pool,
                    workers, inqueue, outcache, ctor_calls, spawned,
                    init_failures_left, router_uses, last_job >>

NextStreet == LoadNetwork \/ GetWalkingDistance

SpecStreet == InitStreet /\ [][NextStreet]_vars

\* ===================================================================
\* Properties
\* ===================================================================
\* the grid offsets of ring r
RingOffsets(r) ==
    {o \in [i : (-r)..r, j : (-r)..r] : RingOf(o) = r}

\* the planar positions of a list of points
PlanarOf(points) ==
    {init_projections(points[k].lat, points[k].lon) : k \in 1..Len(points)}

\* C1: for r >= 1 generate_ring_points(r), of either generator, returns
\* exactly the offsets (i, j) with max(|i|, |j|) = r, each once, placed at
\* the center plus (i * spacing, j * spacing): 8r pairwise distinct points;
\* for r = 0 it returns the work location alone.
C1_RingPoints ==
    pc = "called" =>
        LET r == call_args.ring_number
            s == call_args.spacing
            c == init_projections(call_args.work.lat, call_args.work.lon)
        IN  /\ r = 0 => call_result = << call_args.work >>
            /\ r >= 1 =>
                  /\ Len(call_result) = 8 * r
                  /\ \A k, m \in 1..Len(call_result) :
                        call_result[k] = call_result[m] => k = m
                  /\ PlanarOf(call_result) =
                        {[x |-> c.x + o.i * s, y |-> c.y + o.j * s] :
                            o \in RingOffsets(r)}

C1_Witness ==
    /\ pc = "called"
    /\ call_args.generator = "par"
    /\ call_args.ring_number = 3
    /\ call_args.spacing = 2
    /\ Len(call_result) = 24

\* ---- the ring loop
\* the results recorded for ring r
ResultsOfRing(r) == SelectSeq(results.points, LAMBDA p : p.ring = r)

Scored(rs) == SelectSeq(rs, LAMBDA p : p.score # None)

\* at least one point of the ring has a score and every score exceeds the
\* threshold
ExceedsThreshold(rs) ==
    /\ Scored(rs) # << >>
    /\ \A k \in 1..Len(Scored(rs)) :
          Scored(rs)[k].score[1] > 100 * self.max_score_threshold

\* the jobs that are queued or being executed
Queued == UNION {{inqueue[k].items[m] : m \in 1..Len(inqueue[k].items)} :
                    k \in 1..Len(inqueue)}

Executing == {w \in DOMAIN workers : workers[w].state = "busy"}

InFlight ==
    UNION {{workers[w].task.items[m] :
               m \in (Len(workers[w].out) + 1)..Len(workers[w].task.items)} :
           w \in Executing}

\* every point of the first n rings has exactly one result in the artifact
HoldsRings(n) ==
    \A r \in 0..(n - 1) :
        LET pts == generate_ring_points(generator, self.work_lat, self.work_lon,
                                        self.grid_spacing_feet, r)
            rs == ResultsOfRing(r)
        IN  /\ Len(rs) = Len(pts)
            /\ \A k \in 1..Len(pts) :
                  Cardinality({m \in 1..Len(rs) :
                      rs[m].lat = pts[k].lat /\ rs[m].lon = pts[k].lon}) = 1

\* C2: once a ring r has completed with at least one scored point and every
\* scored point above max_score_threshold, generation stops after that
\* ring: generate_heatmap has returned with the threshold reason for ring r,
\* and no point of a later ring is generated, queued, executed or recorded.
C2_ThresholdStops ==
    \A r \in 0..(results.rings_analyzed - 1) :
        ExceedsThreshold(ResultsOfRing(r)) =>
            /\ pc = "returned"
            /\ results.rings_analyzed = r + 1
            /\ ring = r
            /\ results.stopped_reason = ThresholdReason(r)
            /\ \A k \in 1..Len(results.points) : results.points[k].ring <= r
            /\ Queued = {} /\ InFlight = {}
            /\ \A k \in 1..Len(ring_points) :
                  RingOf(Offset(ring_points[k].lat, ring_points[k].lon)) <= r

C2_Witness ==
    /\ pc = "returned"
    /\ generator = "par"
    /\ max_rings = 2
    /\ results.stopped_reason = ThresholdReason(1)
    /\ Len(Scored(ResultsOfRing(1))) < 8

\* C3: a completed ring r in which every point is unscored never triggers
\* the threshold stop: while r is the last completed ring and r < max_rings
\* the run has gone on to ring r + 1, and if r = max_rings the run has
\* returned with the max-rings reason.
C3_UnscoredRingGoesOn ==
    \A r \in 0..(results.rings_analyzed - 1) :
        Scored(ResultsOfRing(r)) = << >> =>
            /\ results.stopped_reason # ThresholdReason(r)
            /\ (r < max_rings /\ results.rings_analyzed = r + 1) =>
                  /\ ring = r + 1
                  /\ pc \in {"loop", "analyze", "wait", "raised"}
            /\ r = max_rings =>
                  /\ pc = "returned"
                  /\ results.stopped_reason = MaxRingsReason(max_rings)

C3_Witness ==
    /\ generator = "par"
    /\ results.rings_analyzed = 2
    /\ Len(ResultsOfRing(1)) = 8
    /\ Scored(ResultsOfRing(1)) = << >>
    /\ ring = 2
    /\ pc = "wait"
    /\ Len(outcache) > 0

\* C4: no ring beyond max_rings is ever evaluated; when ring max_rings has
\* been evaluated the run has stopped; the returned artifact holds every
\* point result of every evaluated ring, ring max_rings included.
C4_MaxRingsStops ==
    /\ ring <= max_rings
    /\ \A k \in 1..Len(results.points) : results.points[k].ring <= max_rings
    /\ \A j \in Queued \cup InFlight : j.ring <= max_rings
    /\ results.rings_analyzed = max_rings + 1 =>
          /\ pc = "returned"
          /\ results.stopped_reason \in
                {MaxRingsReason(max_rings), ThresholdReason(max_rings)}
    /\ pc = "returned" =>
          /\ HoldsRings(results.rings_analyzed)
          /\ Len(results.points) = results.total_points

C4_Witness ==
    /\ pc = "returned"
    /\ max_rings = 2
    /\ results.rings_analyzed = 3
    /\ results.stopped_reason = MaxRingsReason(2)
    /\ Len(ResultsOfRing(2)) = 16

\* the oracle under which every point scores 100
AllScore100 ==
    /\ \A r \in DOMAIN oracle.base : oracle.base[r] = Minutes(100)
    /\ oracle.special_answer = Minutes(100)

\* C5 (as claimed): with max_rings = 2, threshold 60 and every point scoring
\* 100, the run evaluates rings 0 and 1 (9 points) and stops after ring 1
\* with the threshold reason and rings_analyzed = 2.
C5_StopsAfterRing1 ==
    (AllScore100 /\ max_rings = 2 /\ self.max_score_threshold = 60
        /\ pc = "returned") =>
        /\ results.rings_analyzed = 2
        /\ Len(results.points) = 9
        /\ results.stopped_reason = ThresholdReason(1)

\* C5 (amended): with max_rings = 2, threshold 60 and every point scoring
\* 100, the run evaluates ring 0 alone (1 point) and stops after it with the
\* threshold reason for ring 0 and rings_analyzed = 1; ring 1 is never
\* attempted.
C5_StopsAfterRing0 ==
    (AllScore100 /\ max_rings = 2 /\ self.max_score_threshold = 60) =>
        /\ ring = 0
        /\ \A j \in Queued \cup InFlight : j.ring = 0
        /\ \A k \in 1..Len(results.points) :
              results.points[k].ring = 0 /\ results.points[k].score = Some(10000)
        /\ pc = "returned" =>
              /\ results.rings_analyzed = 1
              /\ results.total_points = 1
              /\ Len(results.points) = 1
              /\ results.stopped_reason = ThresholdReason(0)

C5_Witness ==
    /\ AllScore100
    /\ max_rings = 2
    /\ self.max_score_threshold = 60
    /\ generator = "par"
    /\ pc = "returned"
    /\ results.rings_analyzed = 1

\* ---- the pool
\* C6: in the parallel generator the stopping condition of a ring is
\* evaluated on the complete ring: the ring_results that ring_scores was
\* computed from hold exactly one result for each point of that ring, with
\* imap_unordered (verbose) and with map, whatever order the jobs finished in.
C6_RingCompleteBeforeCheck ==
    (generator = "par" /\ results.rings_analyzed >= 1) =>
        LET r == results.rings_analyzed - 1
            pts == ParGenerateRingPoints(self.work_lat, self.work_lon,
                                         self.grid_spacing_feet, r)
        IN  /\ Len(ring_results) = Len(pts)
            /\ \A k \in 1..Len(pts) :
                  Cardinality({m \in 1..Len(ring_results) :
                      /\ ring_results[m].lat = pts[k].lat
                      /\ ring_results[m].lon = pts[k].lon
                      /\ ring_results[m].ring = r}) = 1
            /\ ring_scores = ScoresOf(ring_results)

C6_Witness ==
    /\ generator = "par"
    /\ verbose
    /\ self.num_workers = 2
    /\ results.rings_analyzed = 2
    /\ Len(ring_results) = 8
    /\ ring_results[1].lat # ring_points[1].lat
    /\ ring_results[8].lat # ring_points[8].lat

\* C7: rings are evaluated one after another: all jobs queued or executing
\* belong to the ring being evaluated, and while any job is outstanding
\* every earlier ring is complete in the artifact.
C7_OneRingAtATime ==
    \A j \in Queued \cup InFlight :
        /\ j.ring = ring
        /\ pc = "wait"
        /\ results.rings_analyzed = ring
        /\ HoldsRings(ring)
        /\ \A k \in 1..Len(results.points) : results.points[k].ring < ring

C7_Witness ==
    /\ self.num_workers = 2
    /\ ring = 1
    /\ Cardinality(Executing) = 2
    /\ Len(inqueue) > 0
    /\ Len(outcache) > 0

\* the worker processes of the pool that have run _init_worker
Initialised == {w \in DOMAIN workers : workers[w].WORKER_CONFIG # None}

\* C8 (as claimed): at most W jobs execute at any instant and over a whole
\* run R5Router is constructed exactly W times.
C8_ExactlyWConstructions ==
    generator = "par" =>
        /\ Cardinality(Executing) <= self.num_workers
        /\ pc \in {"returned", "raised"} => ctor_calls = self.num_workers

\* C8 (amended): at most W jobs execute at any instant, and R5Router is
\* constructed once by each worker process that has run _init_worker,
\* whatever the number of rings and points: never more than W times unless a
\* worker whose construction failed was replaced, and exactly W times once
\* all of the first W workers are initialised.
C8_OneConstructionPerWorker ==
    generator = "par" =>
        /\ Cardinality(Executing) <= self.num_workers
        /\ Cardinality(Executing) <= Cardinality(DOMAIN workers)
        /\ ctor_calls = Cardinality(Initialised) + (spawned - Cardinality(DOMAIN workers))
        /\ ctor_calls <= spawned
        /\ pc # "start" => Cardinality(DOMAIN workers) = self.num_workers
        /\ spawned = self.num_workers => ctor_calls <= self.num_workers
        /\ (spawned = self.num_workers /\ Initialised = DOMAIN workers
              /\ pc # "start") => ctor_calls = self.num_workers

C8_Witness ==
    /\ generator = "par"
    /\ self.num_workers = 2
    /\ pc = "returned"
    /\ results.total_points = 9
    /\ ctor_calls = 2
    /\ Cardinality({u.pid : u \in router_uses}) = 2

\* C9: every oracle query of a point job uses the router built by the
\* worker process that executes the job; no router is used by two
\* processes; all queries of a job are issued by one process on one router,
\* 2 * windowMinutes of them when the job returns.
C9_RouterPerWorker ==
    /\ \A u \in router_uses : u.router.built_by = u.pid
    /\ \A u, v \in router_uses : u.router.id = v.router.id => u.pid = v.pid
    /\ \A w \in Executing : workers[w].WORKER_ROUTER # None
    /\ last_job # None =>
          /\ Cardinality(last_job.pids) <= 1
          /\ Cardinality(last_job.routers) <= 1
          /\ ~last_job.raised =>
                last_job.n = 2 * (config.time_window_end - config.time_window_start + 1)

C9_Witness ==
    /\ generator = "par"
    /\ Cardinality({u.pid : u \in router_uses}) = 2
    /\ Cardinality({u.router.id : u \in router_uses}) = 2
    /\ last_job # None
    /\ last_job.n = 2
    /\ Cardinality(Executing) = 1

\* C10 (as claimed): a point job that fails is recorded with score None and
\* generate_heatmap goes on to the stopping rules: the parallel run never
\* ends with the job's exception.
C10_FailedJobIsUnscored ==
    generator = "par" => pc # "raised"

\* ---- the analyzer
\* what the routing engine does on the k-th query of the call
AnswerAt(k) == Answer(call_args.home, QuerySchedule[k])

\* C11 (as claimed): an oracle query that fails is counted as one
\* unreachable sample and sampling goes on: analyze_location returns, has
\* issued every query of the window, and unreachable_count is the number of
\* queries that found no route or failed.
C11_FailedQueryIsUnreachable ==
    pc = "called" =>
        /\ ~call_result.raised
        /\ call_result.queries = QuerySchedule
        /\ call_result.analysis.unreachable_count =
              Cardinality({k \in 1..Len(QuerySchedule) :
                              AnswerAt(k).kind \in {"none", "raise"}})

\* the minutes of the closed window [time_window_start, time_window_end]
WindowMinutes == config.time_window_start..config.time_window_end

\* C15: for one evaluated point analyze_location issues its queries inside
\* the closed window only and none twice, and when it returns it has issued
\* exactly the two queries (home->work, work->home) of every minute of the
\* window: 2 * windowMinutes queries, windowMinutes = end - start + 1 for a
\* window that does not end before it starts, and total_samples =
\* 2 * windowMinutes.
C15_TwoQueriesPerMinute ==
    pc = "called" =>
        LET qs == call_result.queries
            issued == {qs[k] : k \in 1..Len(qs)}
        IN  /\ \A q \in issued : q.departure_time \in WindowMinutes
            /\ Cardinality(issued) = Len(qs)
            /\ ~call_result.raised =>
                  /\ issued = [departure_time : WindowMinutes,
                               direction : {"to_work", "from_work"}]
                  /\ Len(qs) = 2 * Cardinality(WindowMinutes)
                  /\ call_result.analysis.total_samples =
                        2 * Cardinality(WindowMinutes)
                  /\ config.time_window_start <= config.time_window_end =>
                        Len(qs) = 2 * (config.time_window_end
                                          - config.time_window_start + 1)

C15_Witness ==
    /\ pc = "called"
    /\ ~call_result.raised
    /\ Len(call_result.queries) = 6
    /\ call_result.analysis.total_samples = 6
    /\ call_result.analysis.unreachable_count = 2

\* C16: every result of analyze_location has times = to_work_times followed
\* by from_work_times, len(times) + unreachable_count = total_samples,
\* len(times) <= total_samples and reachable_ratio = len(times) /
\* total_samples, 0 when there is no reachable sample.
C16_CountingInvariants ==
    (pc = "called" /\ ~call_result.raised) =>
        LET a == call_result.analysis
        IN  /\ a.times = a.to_work_times \o a.from_work_times
            /\ Len(a.times) + a.unreachable_count = a.total_samples
            /\ Len(a.times) <= a.total_samples
            /\ a.reachable_ratio.den > 0
            /\ a.reachable_ratio.num * a.total_samples =
                  Len(a.times) * a.reachable_ratio.den
            /\ a.times = << >> => a.reachable_ratio.num = 0

C16_Witness ==
    /\ pc = "called"
    /\ ~call_result.raised
    /\ Len(call_result.analysis.to_work_times) = 1
    /\ Len(call_result.analysis.from_work_times) = 2
    /\ call_result.analysis.unreachable_count = 3
    /\ call_result.analysis.to_work_times # << 10 >>

C18_ScoreIsPooledP80 ==
    (pc = "called" /\ ~call_result.raised) =>
        LET a == call_result.analysis
            pooled == a.to_work_times \o a.from_work_times
        IN  /\ call_result.score = None <=> pooled = << >>
            /\ pooled # << >> =>
                  call_result.score = Some(Percentile(pooled, 80))

\* the pooled 80th percentile differs from that of either direction, from
\* the median and from the mean
C18_Witness ==
    /\ pc = "called"
    /\ ~call_result.raised
    /\ call_result.analysis.to_work_times # << >>
    /\ call_result.analysis.from_work_times # << >>
    /\ LET a == call_result.analysis
       IN  /\ call_result.score # None
           /\ call_result.score[1] # Percentile(a.to_work_times, 80)
           /\ call_result.score[1] # Percentile(a.from_work_times, 80)
           /\ call_result.score[1] # a.statistics.median
           /\ call_result.score[1] * a.statistics.mean.den
                  # 100 * a.statistics.mean.num

\* C19: for every non-empty pooled sample set the percentiles of
\* analyze_location are monotone, p10 <= p25 <= p50 <= p75 <= p80 <= p90 <=
\* p95, and lie between the reported min and max.
C19_PercentilesMonotone ==
    (pc = "called" /\ ~call_result.raised
        /\ call_result.analysis.times # << >>) =>
        LET p == call_result.analysis.percentiles
            st == call_result.analysis.statistics
        IN  /\ st.min <= p.p10
            /\ p.p10 <= p.p25
            /\ p.p25 <= p.p50
            /\ p.p50 <= p.p75
            /\ p.p75 <= p.p80
            /\ p.p80 <= p.p90
            /\ p.p90 <= p.p95
            /\ p.p95 <= st.max

C19_Witness ==
    /\ pc = "called"
    /\ ~call_result.raised
    /\ Len(call_result.analysis.times) = 6
    /\ call_result.analysis.times[1] > call_result.analysis.times[2]
    /\ LET p == call_result.analysis.percentiles
       IN  p.p10 < p.p50 /\ p.p50 < p.p80 /\ p.p80 < p.p95

\* ---- runs to their end
\* generate_heatmap is over: it returned the artifact or raised
Over == pc \in {"returned", "raised"}

\* C12 (as claimed): when _init_worker raises in a worker of the pool, the
\* parallel generate_heatmap is eventually over: it returns the artifact or
\* raises to its caller.
C12_InitFailureNeverHangs ==
    (generator = "par" /\ \E w \in DOMAIN workers : workers[w].state = "dead")
        ~> Over

\* every oracle query of the run returns (a travel time or None)
AllQueriesReturn == oracle.special_answer # Raises

\* the artifact generate_heatmap returned is valid
ValidArtifact ==
    /\ results.stopped_reason # None
    /\ results.rings_analyzed >= 1
    /\ results.rings_analyzed <= max_rings + 1
    /\ results.points # << >>
    /\ results.total_points = Len(results.points)

\* C13: started with max_rings >= 0 and at least one worker, on a routing
\* engine that can be built and whose queries all return, generate_heatmap
\* of either generator returns, after at most max_rings + 1 rings, and
\* what it returns is a valid artifact: stopped_reason is set,
\* rings_analyzed >= 1 and points is not empty.  This holds on every grid
\* spacing and window, and when a worker's construction fails once.
C13_TerminatesWithArtifact ==
    (pc = "start" /\ max_rings >= 0 /\ self.num_workers >= 0
        /\ oracle.constructible /\ AllQueriesReturn)
        ~> (pc = "returned" /\ ValidArtifact)

C13_Witness ==
    /\ generator = "par"
    /\ self.num_workers = 2
    /\ pc = "returned"
    /\ ValidArtifact
    /\ results.rings_analyzed = 2
    /\ results.stopped_reason = MaxRingsReason(1)

\* a configuration the specification rejects
InvalidConfiguration ==
    \/ self.grid_spacing_feet <= 0
    \/ config.time_window_start >= config.time_window_end
    \/ max_rings < 0
    \/ generator = "par" /\ self.num_workers < 1

\* C14 (as claimed): on an invalid configuration no work begins: no worker
\* process is started, no oracle query is issued, and generate_heatmap does
\* not return an artifact.
C14_InvalidConfigurationRejected ==
    InvalidConfiguration =>
        /\ spawned = 0
        /\ router_uses = {}
        /\ pc # "returned"

\* ---- determinism
\* the point results of ring r as the configuration and the routing engine
\* determine them
ExpectedRing(r) ==
    LET pts == generate_ring_points(generator, self.work_lat, self.work_lon,
                                    self.grid_spacing_feet, r)
    IN  {[lat |-> pts[k].lat, lon |-> pts[k].lon, ring |-> r,
          raised |-> analyze_location(pts[k]).raised,
          score |-> IF analyze_location(pts[k]).raised THEN None
                    ELSE get_score(analyze_location(pts[k]).analysis)] :
            k \in 1..Len(pts)}

\* how the run ends when ring r is the next to be evaluated
RECURSIVE ExpectedEnd(_)
ExpectedEnd(r) ==
    LET scored == {p \in ExpectedRing(r) : p.score # None}
    IN  IF \E p \in ExpectedRing(r) : p.raised
        THEN [raised |-> TRUE, rings_analyzed |-> r, stopped_reason |-> None]
        ELSE IF scored # {} /\ \A p \in scored :
                                  p.score[1] > 100 * self.max_score_threshold
        THEN [raised |-> FALSE, rings_analyzed |-> r + 1,
              stopped_reason |-> ThresholdReason(r)]
        ELSE IF r >= max_rings
        THEN [raised |-> FALSE, rings_analyzed |-> r + 1,
              stopped_reason |-> MaxRingsReason(max_rings)]
        ELSE ExpectedEnd(r + 1)

\* the point results of an artifact as a set of (lat, lon, ring, score)
PointSet(points) ==
    {[lat |-> points[k].lat, lon |-> points[k].lon, ring |-> points[k].ring,
      score |-> points[k].score] : k \in 1..Len(points)}

\* C20: how a run ends is a function of the configuration and the routing
\* engine alone, so two runs on the same configuration and engine agree
\* under every scheduling of the workers and every completion order: a run
\* that returns has the rings_analyzed and the stopped_reason so determined
\* and exactly the point results (lat, lon, ring, score) of the rings
\* evaluated, and a run raises exactly when a query of an evaluated ring
\* does.
C20_Deterministic ==
    LET end == ExpectedEnd(0)
    IN  /\ pc = "returned" =>
              /\ ~end.raised
              /\ results.rings_analyzed = end.rings_analyzed
              /\ results.stopped_reason = end.stopped_reason
              /\ PointSet(results.points) =
                    {[lat |-> p.lat, lon |-> p.lon, ring |-> p.ring,
                      score |-> p.score] :
                        p \in UNION {ExpectedRing(r) :
                                        r \in 0..(end.rings_analyzed - 1)}}
        /\ pc = "raised" =>
              /\ end.raised
              /\ results.rings_analyzed = end.rings_analyzed

\* two workers have delivered ring 1 out of order, one point scoring 60
\* among points scoring 100, and the run has returned
C20_Witness ==
    /\ pc = "returned"
    /\ generator = "par"
    /\ verbose
    /\ self.num_workers = 2
    /\ results.rings_analyzed = 2
    /\ results.stopped_reason = MaxRingsReason(1)
    /\ Cardinality({results.points[k].score : k \in 1..Len(results.points)}) = 3
    /\ \E k \in 2..9 :
          /\ results.points[k].lat # ring_points[k - 1].lat
          /\ results.points[k].score = Some(6000)

\* ---- the artifact
IsPrefix(s, t) == Len(s) <= Len(t) /\ SubSeq(t, 1, Len(s)) = s

RingMajor(points) ==
    \A k \in 1..(Len(points) - 1) : points[k].ring <= points[k + 1].ring

\* C21: during generation the points list only grows at its end: every
\* step leaves the entries already in it unchanged and in place, and the
\* ring fields along the list are non-decreasing, so all results of ring r
\* precede all results of ring r + 1.
C21_AppendOnlyRingMajor ==
    [][IsPrefix(results.points, results.points') /\ RingMajor(results.points')]_vars

C21_Witness ==
    /\ generator = "par"
    /\ pc = "returned"
    /\ Len(results.points) = 25
    /\ results.points[1].ring = 0
    /\ results.points[9].ring = 1
    /\ results.points[10].ring = 2

\* the locations of a list of point results, in the order of the list
LocationsOf(rs) == [k \in 1..Len(rs) |-> [lat |-> rs[k].lat, lon |-> rs[k].lon]]

\* C22 (as claimed): in every run of the parallel generator the results of
\* a ring are in the artifact in the order generate_ring_points enumerates
\* the ring's points, whatever order the workers finished in.
C22_StableOrderWithinRing ==
    generator = "par" =>
        \A r \in 0..(results.rings_analyzed - 1) :
            LocationsOf(ResultsOfRing(r)) =
                ParGenerateRingPoints(self.work_lat, self.work_lon,
                                      self.grid_spacing_feet, r)

\* ---- verbose
RECURSIVE SumOver(_, _)
SumOver(f, n) == IF n = 0 THEN 0 ELSE f[n] + SumOver(f, n - 1)

\* the number of queries issued so far
QueriesIssued == IF last_job = None THEN 0 ELSE last_job.total

\* the queries pool.map has the workers issue for one task: those of its
\* points up to and including the first point that raises
QueriesOfTask(task) ==
    LET as == [m \in 1..Len(task.items) |->
                  analyze_location([lat |-> task.items[m].lat,
                                    lon |-> task.items[m].lon])]
        run == {m \in 1..Len(task.items) :
                   \A j \in 1..(m - 1) : ~as[j].raised}
    IN  SumOver([m \in 1..Len(task.items) |->
                    IF m \in run THEN Len(as[m].queries) ELSE 0],
                Len(task.items))

\* the queries of a run with verbose = False: every task of every ring up
\* to the ring at which the run ends
MapQueries ==
    LET end == ExpectedEnd(0)
        last == IF end.raised THEN end.rings_analyzed
                ELSE end.rings_analyzed - 1
        ofRing == [r \in 0..last |->
            LET pts == ParGenerateRingPoints(self.work_lat, self.work_lon,
                                             self.grid_spacing_feet, r)
                tasks == Tasks(PointData(pts, r),
                               MapChunkSize(Len(pts), self.num_workers))
            IN  SumOver([c \in 1..Len(tasks) |-> QueriesOfTask(tasks[c])],
                        Len(tasks))]
    IN  SumOver([r \in 1..(last + 1) |-> ofRing[r - 1]], last + 1)

\* C23 (as claimed): a run of the parallel generator with verbose = True
\* issues the oracle queries the run with verbose = False issues on the
\* same configuration and oracle, and ends as that run ends.
C23_VerboseIsObservational ==
    (generator = "par" /\ Over) =>
        LET end == ExpectedEnd(0)
        IN  /\ QueriesIssued = MapQueries
            /\ pc = "raised" <=> end.raised
            /\ results.rings_analyzed = end.rings_analyzed
            /\ results.stopped_reason = end.stopped_reason

\* ---- the two generators
\* what GridHeatMapGenerator.generate_heatmap returns when it goes on from
\* ring r with the points gathered so far
RECURSIVE SeqRun(_, _)
SeqRun(r, points) ==
    LET pts == SeqGenerateRingPoints(self.work_lat, self.work_lon,
                                     self.grid_spacing_feet, r)
        as == [k \in 1..Len(pts) |-> analyze_location(pts[k])]
    IN  IF \E k \in 1..Len(pts) : as[k].raised
        THEN [raised |-> TRUE]
        ELSE LET rs == [k \in 1..Len(pts) |->
                           PointResult(pts[k].lat, pts[k].lon, r, as[k].analysis)]
                 d == SeqCheckStop(ScoresOf(rs), r, max_rings,
                                   self.max_score_threshold, None)
             IN  IF d.break \/ d.last
                 THEN [raised |-> FALSE,
                       points |-> points \o rs,
                       rings_analyzed |-> r + 1,
                       total_points |-> Len(points \o rs),
                       stopped_reason |-> d.stopped_reason]
                 ELSE SeqRun(r + 1, points \o rs)

\* C24: on the same center, spacing, threshold, max_rings and oracle the
\* parallel generator, with any number of workers, returns what the
\* sequential generator returns: the same rings_analyzed, total_points and
\* stopped_reason and the same set of point results.
C24_GeneratorsEquivalent ==
    pc = "returned" =>
        LET seq == SeqRun(0, << >>)
        IN  /\ ~seq.raised
            /\ results.rings_analyzed = seq.rings_analyzed
            /\ results.total_points = seq.total_points
            /\ results.stopped_reason = seq.stopped_reason
            /\ {results.points[k] : k \in 1..Len(results.points)} =
                  {seq.points[k] : k \in 1..Len(seq.points)}
            /\ generator = "seq" => results.points = seq.points

C24_Witness ==
    /\ generator = "par"
    /\ self.num_workers = 2
    /\ ~verbose
    /\ pc = "returned"
    /\ results.total_points = 9
    /\ results.stopped_reason = ThresholdReason(1)
    /\ results.stopped_reason = SeqRun(0, << >>).stopped_reason

\* ---- the stopping conditions
\* the scores of the scored results among rs
ScoreSet(rs) == {rs[k].score[1] : k \in {m \in 1..Len(rs) : rs[m].score # None}}

\* C25: when ring max_rings has completed with at least one scored point
\* and every scored point above the threshold, stopped_reason is the
\* threshold reason; it is the max-rings reason exactly when ring max_rings
\* has completed and the threshold condition does not hold for it.
C25_ThresholdCheckedFirst ==
    LET rs == ResultsOfRing(max_rings)
        exceeds == /\ ScoreSet(rs) # {}
                   /\ \A sc \in ScoreSet(rs) :
                         sc > 100 * self.max_score_threshold
    IN  /\ (results.rings_analyzed = max_rings + 1 /\ exceeds) =>
              results.stopped_reason = ThresholdReason(max_rings)
        /\ results.stopped_reason = MaxRingsReason(max_rings) <=>
              (results.rings_analyzed = max_rings + 1 /\ ~exceeds)

C25_Witness ==
    /\ generator = "seq"
    /\ pc = "returned"
    /\ max_rings = 2
    /\ results.rings_analyzed = 3
    /\ Len(ResultsOfRing(2)) = 16
    /\ results.stopped_reason = ThresholdReason(2)

\* C26: the threshold comparison is strict and ignores unscored points: a
\* completed ring r has triggered the threshold stop if and only if it has
\* a scored point and every score in it is strictly greater than
\* max_score_threshold; with a score <= threshold in it, equal included,
\* the run has gone on to ring r + 1 or ended on max_rings, whatever the
\* other points of the ring are.
C26_StrictThreshold ==
    \A r \in 0..(results.rings_analyzed - 1) :
        LET scores == ScoreSet(ResultsOfRing(r))
        IN  /\ results.stopped_reason = ThresholdReason(r) <=>
                  /\ scores # {}
                  /\ \A sc \in scores : sc > 100 * self.max_score_threshold
            /\ (\E sc \in scores : sc <= 100 * self.max_score_threshold) =>
                  \/ r < max_rings /\ ring > r
                  \/ /\ r = max_rings
                     /\ results.stopped_reason = MaxRingsReason(max_rings)

\* ring 1 has one point scoring exactly the threshold, all its other points
\* score above it, and the run has gone on to ring 2
C26_Witness ==
    /\ generator = "seq"
    /\ max_rings = 2
    /\ ring = 2
    /\ ScoreSet(ResultsOfRing(0)) = {}
    /\ ScoreSet(ResultsOfRing(1)) = {100 * self.max_score_threshold,
                                      100 * self.max_score_threshold + 4000}
    /\ Len(Scored(ResultsOfRing(1))) = 8

\* ---- the life of the pool
\* the workers that take and run jobs
Serving == {w \in DOMAIN workers : workers[w].state \in {"ready", "busy"}}

\* C27: a worker takes and runs point jobs only after _init_worker has set
\* _WORKER_CONFIG and built its _WORKER_ROUTER, and keeps that router while
\* the pool runs; the pool is created before ring 0 is submitted, runs with
\* its W workers as long as a ring is to be submitted or awaited, and is
\* terminated with all its workers when generate_heatmap is over, by the
\* threshold break, by max_rings or by an exception.
C27_PoolLifetime ==
    /\ [](generator = "par" =>
            /\ \A w \in Serving :
                  /\ workers[w].WORKER_CONFIG # None
                  /\ workers[w].WORKER_ROUTER # None
                  /\ workers[w].WORKER_ROUTER[1].built_by = workers[w].pid
            /\ pc = "start" => pool = "none" /\ inqueue = << >>
            /\ pc \in {"loop", "wait"} =>
                  /\ pool = "running"
                  /\ DOMAIN workers = 1..self.num_workers
                  /\ \A w \in DOMAIN workers : workers[w].state # "terminated"
            /\ Over =>
                  /\ pool = "terminated"
                  /\ \A w \in DOMAIN workers : workers[w].state = "terminated"
                  /\ inqueue = << >>)
    /\ [][\A w \in Serving :
              pool' = "running" =>
                  /\ workers'[w].state \in {"ready", "busy"}
                  /\ workers'[w].pid = workers[w].pid
                  /\ workers'[w].WORKER_ROUTER = workers[w].WORKER_ROUTER]_vars

\* the run has left the loop by the threshold break after two workers
\* served both rings
C27_Witness ==
    /\ generator = "par"
    /\ self.num_workers = 2
    /\ verbose
    /\ pc = "returned"
    /\ results.stopped_reason = ThresholdReason(1)
    /\ pool = "terminated"
    /\ \A w \in DOMAIN workers :
          workers[w].state = "terminated" /\ workers[w].WORKER_ROUTER # None

\* ---- bookkeeping
\* the number of points of ring k
RingSize(k) == IF k = 0 THEN 1 ELSE 8 * k

\* C28: between two rings and in the returned artifact, total_points is the
\* length of points; once ring r has been processed rings_analyzed = r + 1,
\* points holds 1 point of ring 0 and 8k points of every ring k in 1..r,
\* (2r + 1)^2 in all.
C28_Bookkeeping ==
    pc \in {"loop", "returned"} =>
        /\ results.total_points = Len(results.points)
        /\ results.rings_analyzed = IF pc = "loop" THEN ring ELSE ring + 1
        /\ results.rings_analyzed = 0 => results.points = << >>
        /\ results.rings_analyzed >= 1 =>
              LET r == results.rings_analyzed - 1
              IN  /\ Len(results.points) = (2 * r + 1) * (2 * r + 1)
                  /\ \A k \in 0..r : Len(ResultsOfRing(k)) = RingSize(k)
                  /\ \A k \in 1..Len(results.points) :
                        results.points[k].ring \in 0..r

\* the pool has processed rings 0, 1 and 2 and 25 points are returned
C28_Witness ==
    /\ generator = "par"
    /\ pc = "returned"
    /\ results.rings_analyzed = 3
    /\ results.total_points = 25
    /\ Len(results.points) = 25

\* ---- the lattice
\* the grid offsets of the locations evaluated so far
OffsetsOf(points) ==
    {Offset(points[k].lat, points[k].lon) : k \in 1..Len(points)}

\* C29: no location is evaluated twice in a run: the points of a ring lie at
\* offsets of that ring, so different rings share no location, no two
\* evaluated points have the same location, and once rings 0..R are done
\* the evaluated offsets are the whole (2R + 1) x (2R + 1) lattice.
C29_EachLatticePointOnce ==
    LET pts == results.points
    IN  /\ \A k, m \in 1..Len(pts) :
              (pts[k].lat = pts[m].lat /\ pts[k].lon = pts[m].lon) => k = m
        /\ \A k \in 1..Len(pts) :
              RingOf(Offset(pts[k].lat, pts[k].lon)) = pts[k].ring
        /\ \A r1, r2 \in 0..MaxRings :
              r1 # r2 =>
                  OffsetsOf(ResultsOfRing(r1)) \cap OffsetsOf(ResultsOfRing(r2))
                      = {}
        /\ (pc \in {"loop", "returned"} /\ results.rings_analyzed >= 1) =>
              LET R == results.rings_analyzed - 1
              IN  /\ OffsetsOf(pts) = [i : (-R)..R, j : (-R)..R]
                  /\ Cardinality(OffsetsOf(pts)) = Len(pts)

\* the sequential generator has evaluated the 5 x 5 lattice
C29_Witness ==
    /\ generator = "seq"
    /\ pc = "returned"
    /\ results.rings_analyzed = 3
    /\ Cardinality(OffsetsOf(results.points)) = 25
    /\ [i |-> -2, j |-> 2] \in OffsetsOf(ResultsOfRing(2))

\* ---- the walking distance cache
\* C30: the time returned by get_walking_distance is the returned distance
\* walked at the speed of that very call, whatever was cached by earlier
\* calls, and (None, None) is never stored in the cache.
C30_TimeFromOwnSpeed ==
    (pc = "street" /\ call_args # None) =>
        /\ call_result # << None, None >> =>
              call_result[2] =
                  Some(TimeMinutes(call_result[1][1], call_args.miles_per_hour))
        /\ \A k \in DOMAIN self._distance_cache :
              self._distance_cache[k] # << None, None >>

====
